---- MODULE Spec2Model ----
(***************************************************************************)
(* multi-node/aws/pkg/config/config.go: loading a cluster description      *)
(* (defaults overlaid by a YAML document), validating its address plan,    *)
(* resolving it into a Config and rendering the stack template.            *)
(*                                                                         *)
(* Strings are modelled by their parsed shape: a Text is a record          *)
(*   form = "empty"  the empty string                                      *)
(*   form = "name"   a non-empty string that is no address (id names it)   *)
(*   form = "ip"     a dotted quad a.b.c.d, addr its 32-bit value          *)
(*   form = "cidr"   a dotted quad followed by "/bits"                     *)
(*   form = "junk"   any other non-empty string                            *)
(* IPv4 addresses are naturals below 2^32 (the samples stay below 2^31).   *)
(***************************************************************************)
EXTENDS Integers, FiniteSets, Sequences, TLC

VARIABLES pc, file, c, validErr, cluster, err,
          config, configErr,
          rpc, assets, rconfig, userDataWorker, userDataController,
          rendered, out, renderErr

vars == <<pc, file, c, validErr, cluster, err, config, configErr,
          rpc, assets, rconfig, userDataWorker, userDataController,
          rendered, out, renderErr>>

loadVars == <<file, c, validErr, cluster, err>>
renderVars == <<rpc, assets, rconfig, userDataWorker, userDataController,
                rendered, out, renderErr>>

(* Number of keys in which a sampled document departs from the reference  *)
(* document (the four default-less identity keys set, nothing else).      *)
MaxEdits == 2

----------------------------------------------------------------------------
(* Texts *)

EmptyText == [form |-> "empty", id |-> "", addr |-> 0, bits |-> 0]
Name(s) == [form |-> "name", id |-> s, addr |-> 0, bits |-> 0]
JunkText == [form |-> "junk", id |-> "", addr |-> 0, bits |-> 0]
IPv4(a, b, d, e) == ((a * 256 + b) * 256 + d) * 256 + e
IPText(a, b, d, e) == [form |-> "ip", id |-> "", addr |-> IPv4(a, b, d, e), bits |-> 0]
CIDRText(a, b, d, e, n) == [form |-> "cidr", id |-> "", addr |-> IPv4(a, b, d, e), bits |-> n]
(* a key the document does not mention *)
Absent == [form |-> "absent", id |-> "", addr |-> 0, bits |-> 0]

----------------------------------------------------------------------------
(* package net *)

(* ip with all but its first n bits cleared *)
MaskIP(ip, n) == IF n = 0 THEN 0 ELSE ip - (ip % (2 ^ (32 - n)))

(* net.ParseCIDR: the address as written, and the network it lies in      *)
(* (the address masked to the prefix length, with that length).           *)
ParseCIDR(s) ==
    IF s.form = "cidr" /\ s.bits \in 0..32
    THEN [err |-> FALSE, ip |-> s.addr,
          net |-> [base |-> MaskIP(s.addr, s.bits), bits |-> s.bits]]
    ELSE [err |-> TRUE, ip |-> 0, net |-> [base |-> 0, bits |-> 0]]

(* net.ParseIP: nil (ok = FALSE) unless the text is a plain address *)
ParseIP(s) ==
    IF s.form = "ip" THEN [ok |-> TRUE, ip |-> s.addr] ELSE [ok |-> FALSE, ip |-> 0]

(* IPNet.Contains: ip and the network agree under the network's mask *)
Contains(n, ip) == MaskIP(ip, n.bits) = n.base

----------------------------------------------------------------------------
(* Cluster *)

(* &Cluster{}: every field at its zero value *)
zeroCluster ==
    [ClusterName |-> EmptyText, ExternalDNSName |-> EmptyText, KeyName |-> EmptyText,
     Region |-> EmptyText, AvailabilityZone |-> EmptyText, ReleaseChannel |-> EmptyText,
     VPCCIDR |-> EmptyText, InstanceCIDR |-> EmptyText, ControllerIP |-> EmptyText,
     PodCIDR |-> EmptyText, ServiceCIDR |-> EmptyText, KubernetesServiceIP |-> EmptyText,
     DNSServiceIP |-> EmptyText, K8sVer |-> EmptyText, ControllerInstanceType |-> EmptyText,
     ControllerRootVolumeSize |-> 0, WorkerCount |-> 0, WorkerInstanceType |-> EmptyText,
     WorkerRootVolumeSize |-> 0, WorkerSpotPrice |-> EmptyText]

newDefaultCluster ==
    [ClusterName |-> Name("kubernetes"),
     ExternalDNSName |-> EmptyText,
     KeyName |-> EmptyText,
     Region |-> EmptyText,
     AvailabilityZone |-> EmptyText,
     ReleaseChannel |-> Name("alpha"),
     VPCCIDR |-> CIDRText(10, 0, 0, 0, 16),
     InstanceCIDR |-> CIDRText(10, 0, 0, 0, 24),
     ControllerIP |-> IPText(10, 0, 0, 50),
     PodCIDR |-> CIDRText(10, 2, 0, 0, 16),
     ServiceCIDR |-> CIDRText(10, 3, 0, 0, 24),
     KubernetesServiceIP |-> IPText(10, 3, 0, 1),
     DNSServiceIP |-> IPText(10, 3, 0, 10),
     K8sVer |-> Name("v1.1.4"),
     ControllerInstanceType |-> Name("m3.medium"),
     ControllerRootVolumeSize |-> 30,
     WorkerCount |-> 1,
     WorkerInstanceType |-> Name("m3.medium"),
     WorkerRootVolumeSize |-> 30,
     WorkerSpotPrice |-> EmptyText]

IdentityKeys == {"ExternalDNSName", "KeyName", "Region", "AvailabilityZone", "ClusterName"}
CIDRKeys == {"VPCCIDR", "InstanceCIDR", "PodCIDR", "ServiceCIDR"}
IPKeys == {"ControllerIP", "KubernetesServiceIP", "DNSServiceIP"}
(* the fields a sampled document may set (each has a yaml tag) *)
DocKeys == IdentityKeys \cup CIDRKeys \cup IPKeys

(* yaml.Unmarshal into a struct: a key of the document overwrites its     *)
(* field, every other field keeps the value it had.                       *)
Unmarshal(data, into) ==
    [f \in DOMAIN into |->
        IF f \in DOMAIN data /\ data[f].form # "absent" THEN data[f] ELSE into[f]]

NoError == "nil"

(* the five emptiness tests that open Cluster.valid *)
requiredFields(cfg) ==
    IF cfg.ExternalDNSName = EmptyText THEN "externalDNSName must be set"
    ELSE IF cfg.KeyName = EmptyText THEN "keyName must be set"
    ELSE IF cfg.Region = EmptyText THEN "region must be set"
    ELSE IF cfg.AvailabilityZone = EmptyText THEN "availabilityZone must be set"
    ELSE IF cfg.ClusterName = EmptyText THEN "clusterName must be set"
    ELSE NoError

(* vpcNet.Contains(instancesNetIP) *)
vpcContainsInstances(vpc, instances) == Contains(vpc.net, instances.ip)

(* instancesNet.Contains(controllerIPAddr) *)
instancesContainController(instances, ip) == Contains(instances.net, ip)

vpcOverlapsReversed(vpc, other) == Contains(other.net, vpc.ip)

(* vpcNet.Contains(podNetIP), vpcNet.Contains(serviceNetIP) *)
vpcOverlaps(vpc, other) == Contains(vpc.net, other.ip)

podServiceOverlapPodSideOnly(pod, service) == Contains(pod.net, service.ip)

podServiceOverlapServiceSideOnly(pod, service) == Contains(service.net, pod.ip)

(* podNet.Contains(serviceNetIP) || serviceNet.Contains(podNetIP) *)
podServiceOverlap(pod, service) ==
    Contains(pod.net, service.ip) \/ Contains(service.net, pod.ip)

serviceContainsOwnIP(service, ip) == Contains(service.net, service.ip)

(* serviceNet.Contains(kubernetesServiceIPAddr), serviceNet.Contains(dnsServiceIPAddr) *)
serviceContainsIP(service, ip) == Contains(service.net, ip)

(* the address checks of Cluster.valid, from net.ParseCIDR(cfg.VPCCIDR) on *)
addressPlan(cfg) ==
    LET vpc == ParseCIDR(cfg.VPCCIDR) IN
    IF vpc.err THEN "invalid vpcCIDR"
    ELSE LET instances == ParseCIDR(cfg.InstanceCIDR) IN
    IF instances.err THEN "invalid instanceCIDR"
    ELSE IF ~vpcContainsInstances(vpc, instances)
         THEN "vpcCIDR does not contain instanceCIDR"
    ELSE LET controllerIPAddr == ParseIP(cfg.ControllerIP) IN
    IF ~controllerIPAddr.ok THEN "invalid controllerIP"
    ELSE IF ~instancesContainController(instances, controllerIPAddr.ip)
         THEN "instanceCIDR does not contain controllerIP"
    ELSE LET pod == ParseCIDR(cfg.PodCIDR) IN
    IF pod.err THEN "invalid podCIDR"
    ELSE IF vpcOverlaps(vpc, pod) THEN "vpcCIDR overlaps with podCIDR"
    ELSE LET service == ParseCIDR(cfg.ServiceCIDR) IN
    IF service.err THEN "invalid serviceCIDR"
    ELSE IF vpcOverlaps(vpc, service) THEN "vpcCIDR overlaps with serviceCIDR"
    ELSE IF podServiceOverlap(pod, service) THEN "serviceCIDR overlaps with podCIDR"
    ELSE LET kubernetesServiceIPAddr == ParseIP(cfg.KubernetesServiceIP) IN
    IF ~kubernetesServiceIPAddr.ok THEN "Invalid kubernetesServiceIP"
    ELSE IF ~serviceContainsIP(service, kubernetesServiceIPAddr.ip)
         THEN "serviceCIDR does not contain kubernetesServiceIP"
    ELSE LET dnsServiceIPAddr == ParseIP(cfg.DNSServiceIP) IN
    IF ~dnsServiceIPAddr.ok THEN "Invalid dnsServiceIP"
    ELSE IF ~serviceContainsIP(service, dnsServiceIPAddr.ip)
         THEN "serviceCIDR does not contain dnsServiceIP"
    ELSE NoError

validAddressesFirst(cfg) ==
    LET e == addressPlan(cfg) IN IF e # NoError THEN e ELSE requiredFields(cfg)

(* Cluster.valid *)
valid(cfg) ==
    LET e == requiredFields(cfg) IN IF e # NoError THEN e ELSE addressPlan(cfg)

----------------------------------------------------------------------------
(* Input documents *)

(* written addresses and prefix lengths the sampled documents use *)
SampleNets == {0, 1, 2, 3}
SamplePrefixes == {15, 16, 24}
CIDRSamples ==
    {CIDRText(10, n, 0, 0, p) : n \in SampleNets, p \in SamplePrefixes}
        \cup {CIDRText(10, 0, 1, 0, 24), CIDRText(10, 2, 0, 0, 8)}
        \cup {CIDRText(10, 0, 0, 0, 33), IPText(10, 0, 0, 0)}
IPSamples ==
    {IPText(10, 0, 0, 50), IPText(10, 0, 1, 50), IPText(10, 1, 0, 1), IPText(10, 2, 0, 1),
     IPText(10, 3, 0, 1), IPText(10, 3, 0, 10), IPText(10, 4, 0, 1), JunkText}

(* the document that sets the four identity keys without a default *)
RefDoc ==
    [k \in DocKeys |->
        IF k \in IdentityKeys \ {"ClusterName"} THEN Name("x") ELSE Absent]

EditValues(k) ==
    IF k = "ClusterName" THEN {EmptyText, Name("prod")}
    ELSE IF k \in IdentityKeys THEN {Absent}
    ELSE IF k \in CIDRKeys THEN CIDRSamples
    ELSE IPSamples

RECURSIVE Edited(_)
Edited(n) ==
    IF n = 0 THEN {RefDoc}
    ELSE LET prev == Edited(n - 1) IN
         prev \cup {[d EXCEPT ![k] = v] : <<d, k, v>> \in
                        {<<d, k, v>> \in prev \X DocKeys \X (CIDRSamples \cup IPSamples
                            \cup {EmptyText, Name("prod"), Absent}) : v \in EditValues(k)}}

Docs == Edited(MaxEdits)

Files ==
    {[readable |-> FALSE, parsable |-> FALSE, data |-> RefDoc],
     [readable |-> TRUE, parsable |-> FALSE, data |-> RefDoc]}
        \cup {[readable |-> TRUE, parsable |-> TRUE, data |-> d] : d \in Docs}

----------------------------------------------------------------------------
(* ClusterFromFile *)

NilCluster == [nil |-> TRUE]
NilError == <<>>
NotRun == "not run"

(* ClusterFromFile with the result of c.valid() dropped *)
ClusterFromFileUnchecked(f) ==
    IF ~f.readable
    THEN [c |-> NilCluster, validErr |-> NotRun,
          cluster |-> NilCluster, err |-> <<"ReadFile">>]
    ELSE IF ~f.parsable
    THEN [c |-> NilCluster, validErr |-> NotRun,
          cluster |-> NilCluster, err |-> <<"failed to parse">>]
    ELSE LET d == Unmarshal(f.data, newDefaultCluster) IN
         [c |-> d, validErr |-> valid(d), cluster |-> d, err |-> NilError]

(* the locals c and the result of c.valid(), and the two values returned *)
ClusterFromFile(f) ==
    IF ~f.readable
    THEN [c |-> NilCluster, validErr |-> NotRun,
          cluster |-> NilCluster, err |-> <<"ReadFile">>]
    ELSE IF ~f.parsable
    THEN [c |-> NilCluster, validErr |-> NotRun,
          cluster |-> NilCluster, err |-> <<"failed to parse">>]
    ELSE LET d == Unmarshal(f.data, newDefaultCluster)
             e == valid(d) IN
         IF e # NoError
         THEN [c |-> d, validErr |-> e, cluster |-> NilCluster, err |-> <<"is invalid", e>>]
         ELSE [c |-> d, validErr |-> e, cluster |-> d, err |-> NilError]

----------------------------------------------------------------------------
(* Config *)

NilConfig == [nil |-> TRUE]
NilAssets == [nil |-> TRUE]
(* a bundle of raw TLS assets; compactable tells whether Compact succeeds *)
TLSAssets == {[nil |-> FALSE, compactable |-> b] : b \in BOOLEAN}

Compact(tlsConfig) ==
    IF tlsConfig.compactable
    THEN [err |-> FALSE, compact |-> [nil |-> FALSE, of |-> tlsConfig]]
    ELSE [err |-> TRUE, compact |-> [nil |-> TRUE]]

(* Cluster.Config: the pointer and the error returned *)
Config(cl, tlsConfig) ==
    LET r == Compact(tlsConfig) IN
    IF r.err
    THEN [config |-> NilConfig, err |-> <<"Failed to compress TLS assets">>]
    ELSE [config |->
            [Cluster |-> cl,
             ETCDEndpoints |-> [pre |-> "http://", host |-> cl.ControllerIP, post |-> ":2379"],
             APIServers |-> [pre |-> "http://", host |-> cl.ControllerIP, post |-> ":8080"],
             SecureAPIServers |-> [pre |-> "https://", host |-> cl.ControllerIP, post |-> ":443"],
             APIServerEndpoint |-> [pre |-> "https://", host |-> cl.ExternalDNSName, post |-> ""],
             TLSConfig |-> r.compact],
          err |-> NilError]

----------------------------------------------------------------------------
(* RenderStackTemplate *)

NilString == [nil |-> TRUE]
NilBytes == [nil |-> TRUE]

(* the closure execute: read the file, parse and run the template on      *)
(* data, compress the result on demand; ok is whether all of it succeeds  *)
execute(ok, filename, data, compress) ==
    IF ok
    THEN [s |-> [nil |-> FALSE, tmpl |-> filename, data |-> data, compressed |-> compress],
          err |-> NilError]
    ELSE [s |-> NilString, err |-> <<"execute", filename>>]

Return(bytes, e) ==
    /\ rpc' = "returned"
    /\ out' = bytes
    /\ renderErr' = e

(* assets, err := ReadTLSAssets(opts.TLSAssetsDir) *)
ReadTLSAssets ==
    /\ rpc = "entered"
    /\ \E a \in TLSAssets \cup {NilAssets} :
          IF a = NilAssets
          THEN /\ Return(NilBytes, <<"ReadTLSAssets">>)
               /\ UNCHANGED assets
          ELSE /\ assets' = a
               /\ rpc' = "config"
               /\ UNCHANGED <<out, renderErr>>
    /\ UNCHANGED <<pc, loadVars, config, configErr, rconfig, userDataWorker,
                   userDataController, rendered>>

(* config, err := c.Config(assets) *)
RenderConfig ==
    /\ rpc = "config"
    /\ LET r == Config(cluster, assets) IN
          IF r.err # NilError
          THEN /\ Return(NilBytes, r.err)
               /\ UNCHANGED rconfig
          ELSE /\ rconfig' = r.config
               /\ rpc' = "worker"
               /\ UNCHANGED <<out, renderErr>>
    /\ UNCHANGED <<pc, loadVars, config, configErr, assets, userDataWorker,
                   userDataController, rendered>>

(* userDataWorker, err := execute(opts.WorkerTmplFile, config, true) *)
RenderWorker ==
    /\ rpc = "worker"
    /\ \E ok \in BOOLEAN :
          LET r == execute(ok, "WorkerTmplFile", rconfig, TRUE) IN
          IF r.err # NilError
          THEN /\ Return(NilBytes, <<"failed to render worker cloud config">> \o r.err)
               /\ UNCHANGED userDataWorker
          ELSE /\ userDataWorker' = r.s
               /\ rpc' = "controller"
               /\ UNCHANGED <<out, renderErr>>
    /\ UNCHANGED <<pc, loadVars, config, configErr, assets, rconfig,
                   userDataController, rendered>>

(* userDataController, err := execute(opts.ControllerTmplFile, config, true) *)
RenderController ==
    /\ rpc = "controller"
    /\ \E ok \in BOOLEAN :
          LET r == execute(ok, "ControllerTmplFile", rconfig, TRUE) IN
          IF r.err # NilError
          THEN /\ Return(NilBytes, <<"failed to render controller cloud config">> \o r.err)
               /\ UNCHANGED userDataController
          ELSE /\ userDataController' = r.s
               /\ rpc' = "stack"
               /\ UNCHANGED <<out, renderErr>>
    /\ UNCHANGED <<pc, loadVars, config, configErr, assets, rconfig,
                   userDataWorker, rendered>>

(* rendered, err := execute(opts.StackTemplateTmplFile, data, false) *)
RenderStack ==
    /\ rpc = "stack"
    /\ \E ok \in BOOLEAN :
          LET data == [Config |-> rconfig, UserDataWorker |-> userDataWorker,
                       UserDataController |-> userDataController]
              r == execute(ok, "StackTemplateTmplFile", data, FALSE) IN
          IF r.err # NilError
          THEN /\ Return(NilBytes, r.err)
               /\ UNCHANGED rendered
          ELSE /\ rendered' = r.s
               /\ rpc' = "minify"
               /\ UNCHANGED <<out, renderErr>>
    /\ UNCHANGED <<pc, loadVars, config, configErr, assets, rconfig,
                   userDataWorker, userDataController>>

(* Minify returning the buffer's bytes next to the error *)
MinifyPartial ==
    /\ rpc = "minify"
    /\ \E ok \in BOOLEAN :
          IF ~ok
          THEN Return([nil |-> FALSE, compacted |-> NilString], <<"json.Compact">>)
          ELSE Return([nil |-> FALSE, compacted |-> rendered], NilError)
    /\ UNCHANGED <<pc, loadVars, config, configErr, assets, rconfig,
                   userDataWorker, userDataController, rendered>>

(* json.Compact(&buff, []byte(rendered)); return buff.Bytes(), nil *)
Minify ==
    /\ rpc = "minify"
    /\ \E ok \in BOOLEAN :
          IF ~ok
          THEN Return(NilBytes, <<"json.Compact">>)
          ELSE Return([nil |-> FALSE, compacted |-> rendered], NilError)
    /\ UNCHANGED <<pc, loadVars, config, configErr, assets, rconfig,
                   userDataWorker, userDataController, rendered>>

----------------------------------------------------------------------------
(* The calling program: load, give up on an error, else resolve or render *)

Load ==
    /\ pc = "start"
    /\ \E f \in Files :
          LET r == ClusterFromFile(f) IN
          /\ file' = f
          /\ c' = r.c
          /\ validErr' = r.validErr
          /\ cluster' = r.cluster
          /\ err' = r.err
          /\ pc' = IF r.err = NilError THEN "loaded" ELSE "aborted"
    /\ UNCHANGED <<config, configErr, renderVars>>

Resolve ==
    /\ pc = "loaded"
    /\ rpc \in {"idle", "returned"}
    /\ \E tlsConfig \in TLSAssets :
          LET r == Config(cluster, tlsConfig) IN
          /\ config' = r.config
          /\ configErr' = r.err
    /\ pc' = "resolved"
    /\ UNCHANGED <<loadVars, renderVars>>

(* cluster.RenderStackTemplate(opts) is called *)
Render ==
    /\ pc \in {"loaded", "resolved"}
    /\ rpc = "idle"
    /\ rpc' = "entered"
    /\ UNCHANGED <<pc, loadVars, config, configErr, assets, rconfig, userDataWorker,
                   userDataController, rendered, out, renderErr>>

Init ==
    /\ pc = "start"
    /\ file = [readable |-> FALSE, parsable |-> FALSE, data |-> RefDoc]
    /\ c = NilCluster
    /\ validErr = NotRun
    /\ cluster = NilCluster
    /\ err = NilError
    /\ config = NilConfig
    /\ configErr = NilError
    /\ rpc = "idle"
    /\ assets = NilAssets
    /\ rconfig = NilConfig
    /\ userDataWorker = NilString
    /\ userDataController = NilString
    /\ rendered = NilString
    /\ out = NilBytes
    /\ renderErr = NilError

Next ==
    \/ Load
    \/ Resolve
    \/ Render
    \/ ReadTLSAssets
    \/ RenderConfig
    \/ RenderWorker
    \/ RenderController
    \/ RenderStack
    \/ Minify

Spec == Init /\ [][Next]_vars

----------------------------------------------------------------------------
(* Vocabulary of the properties: ranges as sets of addresses *)

WellFormedCIDR(t) == t.form = "cidr" /\ t.bits >= 0 /\ t.bits <= 32
WellFormedIP(t) == t.form = "ip"
RangeSize(t) == 2 ^ (32 - t.bits)
(* first and last address of the range a well-formed CIDR text declares *)
First(t) == (t.addr \div RangeSize(t)) * RangeSize(t)
Last(t) == First(t) + RangeSize(t) - 1
NetworkAddress(t) == First(t)
InRange(ip, t) == First(t) <= ip /\ ip <= Last(t)
SubsetOf(s, t) == First(t) <= First(s) /\ Last(s) <= Last(t)
Overlap(s, t) == First(s) <= Last(t) /\ First(t) <= Last(s)
HostBitsSet(t) == t.addr # NetworkAddress(t)

(* validate has been run on the description c *)
Validated == validErr # NotRun
Accepted == validErr = NoError

(* the error kinds of the address-plan contract *)
Reason(e) ==
    CASE e \in {"externalDNSName must be set", "keyName must be set", "region must be set",
                "availabilityZone must be set", "clusterName must be set"} -> "MissingField"
      [] e \in {"invalid vpcCIDR", "invalid instanceCIDR", "invalid podCIDR",
                "invalid serviceCIDR"} -> "MalformedCIDR"
      [] e = "vpcCIDR does not contain instanceCIDR" -> "InstanceRangeOutsideVPC"
      [] e \in {"invalid controllerIP", "Invalid kubernetesServiceIP",
                "Invalid dnsServiceIP"} -> "MalformedAddress"
      [] e = "instanceCIDR does not contain controllerIP" -> "ControllerOutsideInstanceRange"
      [] e = "vpcCIDR overlaps with podCIDR" -> "PodRangeOverlapsVPC"
      [] e = "vpcCIDR overlaps with serviceCIDR" -> "ServiceRangeOverlapsVPC"
      [] e = "serviceCIDR overlaps with podCIDR" -> "PodServiceRangeOverlap"
      [] e \in {"serviceCIDR does not contain kubernetesServiceIP",
                "serviceCIDR does not contain dnsServiceIP"} -> "ServiceAddressOutsideRange"
      [] OTHER -> "ok"

(* The checks in the order of the contract: the five identity fields, then *)
(* rules 1 to 9; each with the error that reports it.                      *)
CheckError ==
    <<"externalDNSName must be set", "keyName must be set", "region must be set",
      "availabilityZone must be set", "clusterName must be set",
      "invalid vpcCIDR", "invalid instanceCIDR", "vpcCIDR does not contain instanceCIDR",
      "invalid controllerIP", "instanceCIDR does not contain controllerIP",
      "invalid podCIDR", "vpcCIDR overlaps with podCIDR",
      "invalid serviceCIDR", "vpcCIDR overlaps with serviceCIDR",
      "serviceCIDR overlaps with podCIDR",
      "Invalid kubernetesServiceIP", "serviceCIDR does not contain kubernetesServiceIP",
      "Invalid dnsServiceIP", "serviceCIDR does not contain dnsServiceIP">>

(* description d violates check k (a containment check is violated only  *)
(* when the texts it compares are well formed); the address written in a *)
(* range is the one the containment checks look at                        *)
Fails(d, k) ==
    CASE k = 1 -> d.ExternalDNSName.form = "empty"
      [] k = 2 -> d.KeyName.form = "empty"
      [] k = 3 -> d.Region.form = "empty"
      [] k = 4 -> d.AvailabilityZone.form = "empty"
      [] k = 5 -> d.ClusterName.form = "empty"
      [] k = 6 -> ~WellFormedCIDR(d.VPCCIDR)
      [] k = 7 -> ~WellFormedCIDR(d.InstanceCIDR)
      [] k = 8 -> /\ WellFormedCIDR(d.VPCCIDR) /\ WellFormedCIDR(d.InstanceCIDR)
                  /\ ~InRange(d.InstanceCIDR.addr, d.VPCCIDR)
      [] k = 9 -> ~WellFormedIP(d.ControllerIP)
      [] k = 10 -> /\ WellFormedCIDR(d.InstanceCIDR) /\ WellFormedIP(d.ControllerIP)
                   /\ ~InRange(d.ControllerIP.addr, d.InstanceCIDR)
      [] k = 11 -> ~WellFormedCIDR(d.PodCIDR)
      [] k = 12 -> /\ WellFormedCIDR(d.VPCCIDR) /\ WellFormedCIDR(d.PodCIDR)
                   /\ InRange(d.PodCIDR.addr, d.VPCCIDR)
      [] k = 13 -> ~WellFormedCIDR(d.ServiceCIDR)
      [] k = 14 -> /\ WellFormedCIDR(d.VPCCIDR) /\ WellFormedCIDR(d.ServiceCIDR)
                   /\ InRange(d.ServiceCIDR.addr, d.VPCCIDR)
      [] k = 15 -> /\ WellFormedCIDR(d.PodCIDR) /\ WellFormedCIDR(d.ServiceCIDR)
                   /\ \/ InRange(d.ServiceCIDR.addr, d.PodCIDR)
                      \/ InRange(d.PodCIDR.addr, d.ServiceCIDR)
      [] k = 16 -> ~WellFormedIP(d.KubernetesServiceIP)
      [] k = 17 -> /\ WellFormedCIDR(d.ServiceCIDR) /\ WellFormedIP(d.KubernetesServiceIP)
                   /\ ~InRange(d.KubernetesServiceIP.addr, d.ServiceCIDR)
      [] k = 18 -> ~WellFormedIP(d.DNSServiceIP)
      [] OTHER -> /\ WellFormedCIDR(d.ServiceCIDR) /\ WellFormedIP(d.DNSServiceIP)
                  /\ ~InRange(d.DNSServiceIP.addr, d.ServiceCIDR)

Failing(d) == {k \in DOMAIN CheckError : Fails(d, k)}
Earliest(S) == CHOOSE k \in S : \A j \in S : k <= j
(* d passes every check before check k *)
PassesBefore(d, k) == \A j \in DOMAIN CheckError : j < k => ~Fails(d, j)

----------------------------------------------------------------------------
(* C1: validate reports the first failure in the fixed order (identity    *)
(* fields, then rules 1 to 9): the error is that of the earliest check    *)
(* the description violates, an empty identity field gives MissingField   *)
(* whatever the addresses are, and ok is returned only when no check      *)
(* fails.                                                                  *)
C1_FirstFailureWins ==
    Validated =>
        /\ IF Failing(c) = {} THEN validErr = NoError
           ELSE validErr = CheckError[Earliest(Failing(c))]
        /\ (\E f \in IdentityKeys : c[f].form = "empty") => Reason(validErr) = "MissingField"
        /\ Accepted => Failing(c) = {}

(* an empty key name together with an instance range outside the VPC *)
C1_Witness ==
    /\ Validated
    /\ Fails(c, 2) /\ Fails(c, 8) /\ ~Fails(c, 1)
    /\ validErr = "keyName must be set"

(* C2: with identity fields set and VPC and instance range well formed,   *)
(* an instance range that is not a subset of the VPC range is rejected    *)
(* with InstanceRangeOutsideVPC.                                           *)
C2_NotSubsetRejected ==
    (/\ Validated
     /\ PassesBefore(c, 8)
     /\ ~SubsetOf(c.InstanceCIDR, c.VPCCIDR))
        => Reason(validErr) = "InstanceRangeOutsideVPC"

(* C3: when the identity checks and rules 1 to 4 pass and the pod range   *)
(* is well formed, a pod range whose network address lies in the VPC      *)
(* range is rejected with PodRangeOverlapsVPC.                             *)
C3_PodNetworkAddressInVPC ==
    (/\ Validated
     /\ PassesBefore(c, 12)
     /\ InRange(NetworkAddress(c.PodCIDR), c.VPCCIDR))
        => Reason(validErr) = "PodRangeOverlapsVPC"

(* C4: when every check up to rule 6 passes, a pod range containing the   *)
(* service range's network address, or a service range containing the     *)
(* pod range's network address, is rejected with PodServiceRangeOverlap.   *)
C4_PodServiceExclusive ==
    (/\ Validated
     /\ PassesBefore(c, 15)
     /\ \/ InRange(NetworkAddress(c.ServiceCIDR), c.PodCIDR)
        \/ InRange(NetworkAddress(c.PodCIDR), c.ServiceCIDR))
        => Reason(validErr) = "PodServiceRangeOverlap"

(* pod range 10.2.0.0/16 with service range 10.2.0.0/24 *)
C4_Witness ==
    /\ Validated
    /\ c.PodCIDR = CIDRText(10, 2, 0, 0, 16)
    /\ c.ServiceCIDR = CIDRText(10, 2, 0, 0, 24)
    /\ c.VPCCIDR = CIDRText(10, 0, 0, 0, 16)
    /\ validErr = "serviceCIDR overlaps with podCIDR"

(* C5: whenever validate returns ok the controller address lies in the    *)
(* instance range and both service addresses lie in the service range;    *)
(* and a description passing all earlier checks with a well-formed        *)
(* address outside its range is rejected with                             *)
(* ControllerOutsideInstanceRange, respectively ServiceAddressOutsideRange *)
C5_HostsInsideRanges ==
    Validated =>
        /\ Accepted =>
              /\ InRange(c.ControllerIP.addr, c.InstanceCIDR)
              /\ InRange(c.KubernetesServiceIP.addr, c.ServiceCIDR)
              /\ InRange(c.DNSServiceIP.addr, c.ServiceCIDR)
        /\ (/\ PassesBefore(c, 10)
            /\ ~InRange(c.ControllerIP.addr, c.InstanceCIDR))
              => Reason(validErr) = "ControllerOutsideInstanceRange"
        /\ (/\ PassesBefore(c, 17)
            /\ ~InRange(c.KubernetesServiceIP.addr, c.ServiceCIDR))
              => Reason(validErr) = "ServiceAddressOutsideRange"
        /\ (/\ PassesBefore(c, 19)
            /\ ~InRange(c.DNSServiceIP.addr, c.ServiceCIDR))
              => Reason(validErr) = "ServiceAddressOutsideRange"

(* DNS service address 10.4.0.1 outside the service range, all else fine *)
C5_Witness ==
    /\ Validated
    /\ PassesBefore(c, 19)
    /\ c.DNSServiceIP = IPText(10, 4, 0, 1)
    /\ validErr = "serviceCIDR does not contain dnsServiceIP"

(* the addressing defaults as the contract states them *)
StatedDefaults ==
    [VPCCIDR |-> CIDRText(10, 0, 0, 0, 16),
     InstanceCIDR |-> CIDRText(10, 0, 0, 0, 24),
     ControllerIP |-> IPText(10, 0, 0, 50),
     PodCIDR |-> CIDRText(10, 2, 0, 0, 16),
     ServiceCIDR |-> CIDRText(10, 3, 0, 0, 24),
     KubernetesServiceIP |-> IPText(10, 3, 0, 1),
     DNSServiceIP |-> IPText(10, 3, 0, 10)]

Supplies(f, k) == f.data[k].form # "absent"
Parsed == pc # "start" /\ file.readable /\ file.parsable
SetsOnlyIdentity(f) ==
    /\ \A k \in IdentityKeys : Supplies(f, k) /\ f.data[k].form # "empty"
    /\ \A k \in DocKeys \ IdentityKeys : ~Supplies(f, k)

(* C6: a readable, parsable document that sets only the five identity     *)
(* fields to non-empty values yields the stated addressing defaults and   *)
(* validate succeeds on it; a key the document supplies overrides the     *)
(* default of that field only.                                             *)
C6_DefaultsValid ==
    Parsed =>
        /\ SetsOnlyIdentity(file) =>
              /\ \A k \in DOMAIN StatedDefaults : c[k] = StatedDefaults[k]
              /\ validErr = NoError
              /\ cluster = c
        /\ \A k \in DOMAIN StatedDefaults :
              c[k] = IF Supplies(file, k) THEN file.data[k] ELSE StatedDefaults[k]
        /\ \A k \in IdentityKeys : Supplies(file, k) => c[k] = file.data[k]

C6_Witness ==
    /\ Parsed
    /\ SetsOnlyIdentity(file)
    /\ pc = "loaded"
    /\ cluster.ClusterName = Name("prod")

(* C7: ClusterFromFile, Config and RenderStackTemplate each return either *)
(* a result with no error or an error with no result.                     *)
C7_NoPartialSuccess ==
    /\ pc # "start" => ((cluster = NilCluster) <=> (err # NilError))
    /\ pc = "resolved" => ((config = NilConfig) <=> (configErr # NilError))
    /\ rpc = "returned" => ((out = NilBytes) <=> (renderErr # NilError))
    /\ rpc # "returned" => out = NilBytes

(* the last rendering step fails after every earlier one succeeded *)
C7_Witness ==
    /\ rpc = "returned"
    /\ rendered # NilString
    /\ renderErr = <<"json.Compact">>
    /\ out = NilBytes

CheckedPairs == {<<"VPCCIDR", "PodCIDR">>, <<"VPCCIDR", "ServiceCIDR">>,
                 <<"PodCIDR", "ServiceCIDR">>}

(* C9 as stated: validate accepts a description in which two ranges it    *)
(* checks for overlap share an address although neither range's network   *)
(* address lies in the other range.                                        *)
C9_OverlapWithoutNetworkAddressInside ==
    pc = "start" =>
        \E f \in Files :
            LET r == ClusterFromFile(f) IN
            /\ r.validErr = NoError
            /\ \E p \in CheckedPairs :
                  /\ Overlap(r.c[p[1]], r.c[p[2]])
                  /\ ~InRange(NetworkAddress(r.c[p[1]]), r.c[p[2]])
                  /\ ~InRange(NetworkAddress(r.c[p[2]]), r.c[p[1]])

(* C9, amended: the overlap checks are weaker than range intersection:    *)
(* validate accepts descriptions in which the VPC range shares addresses   *)
(* with the pod or the service range. In each of them the other range     *)
(* contains the whole VPC range, so the VPC's network address does lie in  *)
(* it, while the address written in the other range lies outside the VPC;  *)
(* an overlap of pod and service range is never accepted.                  *)
C9_OnlyRangesAroundVPCEscape ==
    (Validated /\ Accepted) =>
        /\ ~Overlap(c.PodCIDR, c.ServiceCIDR)
        /\ \A k \in {"PodCIDR", "ServiceCIDR"} :
              Overlap(c.VPCCIDR, c[k]) =>
                  /\ SubsetOf(c.VPCCIDR, c[k])
                  /\ InRange(NetworkAddress(c.VPCCIDR), c[k])
                  /\ ~InRange(c[k].addr, c.VPCCIDR)

(* an accepted description whose pod range shares addresses with the VPC *)
C9_Witness ==
    /\ Validated /\ Accepted
    /\ Overlap(c.VPCCIDR, c.PodCIDR)

(* C10: whenever validate returns ok the pod and the service range share  *)
(* no address, however the ranges are written; at the pod/service step    *)
(* the two containment tests decide exactly whether the ranges intersect. *)
C10_PodServiceDisjoint ==
    Validated =>
        /\ Accepted => ~Overlap(c.PodCIDR, c.ServiceCIDR)
        /\ PassesBefore(c, 15) =>
              ((validErr = "serviceCIDR overlaps with podCIDR")
                  <=> Overlap(c.PodCIDR, c.ServiceCIDR))

(* ranges of different prefix lengths, the wider one written with host    *)
(* bits set, rejected at the pod/service step                             *)
C10_Witness ==
    /\ Validated
    /\ PassesBefore(c, 15)
    /\ validErr = "serviceCIDR overlaps with podCIDR"
    /\ c.PodCIDR.bits # c.ServiceCIDR.bits
    /\ HostBitsSet(c.PodCIDR) \/ HostBitsSet(c.ServiceCIDR)

====
